---- MODULE Spec2Model ----
(***************************************************************************)
(* The deploy command of containerlab (cmd/deploy.go) and the post-deploy  *)
(* bootstrap protocol of the Arista cEOS node kind (ceosPostDeploy).       *)
(*                                                                         *)
(* The main routine (deployCmd.RunE) is one sequential process whose       *)
(* position is pc; the post-deploy fan-out starts one goroutine per node,  *)
(* whose position is task[n].  The container runtime and the host file     *)
(* system are the environment: every call into them either succeeds or     *)
(* returns an error.                                                       *)
(*                                                                         *)
(* Spec and FairSpec are the deploy run.  The functions of the program     *)
(* that work on more inputs than a deploy run of NumNodes nodes hands them *)
(* have specifications of their own, on the same variables: SpecLimits     *)
(* (worker limits), SpecHosts (createHostsFile and hostsEntries),          *)
(* SpecEnrich (enrichNodes), SpecCeos (ceos.Init) and SpecMac              *)
(* (createCEOSFiles).                                                      *)
(***************************************************************************)
EXTENDS Integers, Sequences, FiniteSets, TLC

\* Number of nodes of the topology (len(c.Nodes)).
NumNodes == 2

\* The largest --max-workers value and the largest number of nodes or links
\* the worker limits are computed for.
MaxWorkers == 4
MaxItems == 3

\* The longest container list handed to hostsEntries and to enrichNodes on
\* their own.
MaxContainers == 2

\* The number of entries of ceosEnv, in the order of the source, that the
\* environment of a cEOS node is built from.
EnvBound == 3

NodeIdx == 1..NumNodes

\* Short name of the i-th node, the key of the c.Nodes map.
ShortName(i) == "n" \o ToString(i)

Nodes == {ShortName(i) : i \in NodeIdx}

\* Node-name label of a container that belongs to the lab but to no node of
\* the current topology.
StaleName == "old"

\* Node kinds: the kind that needs the bootstrap protocol and one that does not.
Kinds == {"ceos", "linux"}

\* Values of NodeConfig.NetworkMode found in topologies.
NetworkModes == {"bridge", "Host"}

\* strings.ToLower on the network modes.
ToLower(s) == IF s = "Host" \/ s = "HOST" THEN "host" ELSE s

\* Container names and IDs the runtime gives the container of a node.
LabName == "lab"
LongName(nm) == "clab-" \o LabName \o "-" \o nm
ContainerIDOf(nm) == "id-" \o nm
ContainerIDs == {ContainerIDOf(nm) : nm \in Nodes \cup {StaleName}}

\* Addresses the runtime's management network assigns to a container.
IPv4Of(nm) == "172.20.20." \o nm
IPv6Of(nm) == "2001:db8::" \o nm

\* Path of the network namespace of a container after its g-th start.
NSPathOf(id, g) == "/proc/" \o id \o "/" \o ToString(g) \o "/ns/net"

\* path.Join(node.LabDir, "flash", "startup-config")
StartupConfigPath(nm) == "lab/" \o nm \o "/flash/startup-config"

\* The steps of the bootstrap protocol, named after the calls they make.
Steps == <<"GenerateConfig", "StopContainer", "DeleteNetnsSymlink",
           "StartContainer", "GetNSPath", "LinkContainerNS">>

\* The phases of the deploy command, named after the calls they make.
PhaseOrder == <<"CreateNet", "CreateNodes", "CreateLinks1", "ListContainers",
                "enrichNodes", "PostDeploy", "CreateLinks2", "createHostsFile">>

\* Values of c.Config.Mgmt.Network, the bridge name handed to createHostsFile.
MgmtNets == {"clab", ""}

LongNames == {LongName(nm) : nm \in Nodes}
ContainerIDOfLong(ln) == ContainerIDOf(CHOOSE nm \in Nodes : LongName(nm) = ln)
Paths == {StartupConfigPath(nm) : nm \in Nodes}

VARIABLES
    pc,         \* position of deployCmd.RunE
    ret,        \* what RunE returned: "running", "nil" or the error
    phases,     \* the phases started so far, in order
    nodes,      \* c.Nodes: short name -> NodeConfig
    containers, \* the container list returned by ListContainers
    idx,        \* enrichNodes: index of the next container of the loop
    rt,         \* runtime: container ID -> "absent", "running" or "stopped"
    nsGen,      \* runtime: container ID -> number of starts so far
    symlink,    \* host: long name -> target of the namespace symlink
    disk,       \* host: startup-config path -> content
    task,       \* position of the post-deploy goroutine of each node
    taskErr,    \* what the node's ExecPostDeployTasks returned
    calls,      \* per node: the protocol's calls so far, <<call, argument>>
    wg,         \* sync.WaitGroup counter
    hostsFile,  \* what was appended to /etc/hosts
    invoked,    \* per node: how many times ExecPostDeployTasks was called
    hostsErr,   \* the error createHostsFile returned, "none" before the call
    limits,     \* maxWorkers, numNodes, numLinks and the two worker limits
    cfg,        \* ceos.Init: s.cfg (Env, Cmd) of the cEOS nodes initialised
    macAddress, \* createCEOSFiles: node.MacAddress
    sysMac,     \* createCEOSFiles: what system_mac_address holds
    name        \* package cmd's variable name: the --name flag, the lab name

\* What the kind's Init and PreDeploy work on, ahead of the deploy run.
kindVars == <<cfg, macAddress, sysMac>>

vars == <<pc, ret, phases, nodes, containers, idx, rt, nsGen, symlink, disk,
          task, taskErr, calls, wg, hostsFile, invoked, hostsErr, limits,
          kindVars, name>>

\* RunE's worker numbers before they are computed: the --max-workers flag,
\* len(c.Nodes), len(c.Links), and the two limits not yet set.
NewLimits(maxWorkers, numNodes, numLinks) ==
    [maxWorkers |-> maxWorkers, numNodes |-> numNodes, numLinks |-> numLinks,
     nodesMaxWorkers |-> 0, linksMaxWorkers |-> 0]

\* A deploy run works on nodes that their kind has initialised already: no
\* Init or PreDeploy of the kind is under way.
NoKind ==
    /\ cfg = <<>>
    /\ macAddress = <<>>
    /\ sysMac = <<>>

\* A NodeConfig before deployment: the observed fields hold Go's zero values.
NewNodeConfig(nm, kind, mode) ==
    [ShortName |-> nm, LongName |-> LongName(nm), Kind |-> kind,
     NetworkMode |-> mode, ContainerID |-> "",
     MgmtIPv4Address |-> "", MgmtIPv4PrefixLength |-> 0,
     MgmtIPv6Address |-> "", MgmtIPv6PrefixLength |-> 0,
     NSPath |-> "", ResConfig |-> ""]

\* The topologies are taken up to the naming of the nodes: the nodes are
\* listed by kind and network mode, cEOS and bridged first.
TopologyRank(kind, mode) ==
    (IF kind = "ceos" THEN 0 ELSE 2) + (IF mode = "bridge" THEN 0 ELSE 1)

Init ==
    /\ pc = "CreateNet"
    /\ ret = "running"
    /\ phases = <<>>
    /\ \E kind \in [Nodes -> Kinds], mode \in [Nodes -> NetworkModes] :
         /\ \A i \in NodeIdx \ {NumNodes} :
               TopologyRank(kind[ShortName(i)], mode[ShortName(i)])
                  <= TopologyRank(kind[ShortName(i + 1)], mode[ShortName(i + 1)])
         /\ nodes = [nm \in Nodes |-> NewNodeConfig(nm, kind[nm], mode[nm])]
    /\ containers = <<>>
    /\ idx = 1
    /\ \E old \in {"absent", "running"} :
           rt = [id \in ContainerIDs |->
                    IF id = ContainerIDOf(StaleName) THEN old ELSE "absent"]
    /\ nsGen = [id \in ContainerIDs |-> IF rt[id] = "running" THEN 1 ELSE 0]
    /\ symlink = [ln \in LongNames |-> ""]
    /\ disk = [p \in Paths |-> <<>>]
    /\ task = [nm \in Nodes |-> "idle"]
    /\ taskErr = [nm \in Nodes |-> "none"]
    /\ calls = [nm \in Nodes |-> <<>>]
    /\ wg = 0
    /\ hostsFile = <<>>
    /\ invoked = [nm \in Nodes |-> 0]
    /\ hostsErr = "none"
    /\ limits = NewLimits(0, NumNodes, 0)
    /\ NoKind
    /\ name = LabName

\* RunE returns err: the deferred cancel runs and the command is over.
Return(err) ==
    /\ pc' = "done"
    /\ ret' = err

\* WorkerLimit without the clamp to the number of items.
WorkerLimitNoClamp(maxWorkers, n) ==
    IF maxWorkers = 0 THEN n ELSE maxWorkers

\* The worker limit for n items under the configured maximum.
WorkerLimit(maxWorkers, n) ==
    LET workers == IF maxWorkers = 0 THEN n ELSE maxWorkers
    IN  IF workers > n THEN n ELSE workers

\* nodesMaxWorkers and linksMaxWorkers as RunE computes them.
WorkerLimits(l) ==
    [l EXCEPT !.nodesMaxWorkers = WorkerLimit(l.maxWorkers, l.numNodes),
              !.linksMaxWorkers = WorkerLimit(l.maxWorkers, l.numLinks)]

\* c.Runtime.CreateNet(ctx): creates the management network or fails; when
\* it has not failed RunE computes the worker limits.
CreateNet ==
    /\ pc = "CreateNet"
    /\ phases' = Append(phases, "CreateNet")
    /\ \/ pc' = "CreateNodes" /\ ret' = ret /\ limits' = WorkerLimits(limits)
       \/ Return("CreateNet failed") /\ limits' = limits
    /\ UNCHANGED <<nodes, containers, idx, rt, nsGen, symlink, disk, task,
                   taskErr, calls, wg, hostsFile, invoked, hostsErr, kindVars, name>>

\* createCEOSFiles: the node's ResConfig becomes the startup-config path.
createCEOSFiles(node) ==
    [node EXCEPT !.ResConfig = StartupConfigPath(node.ShortName)]

\* PreDeploy of a node: only the cEOS kind is in the sources.
PreDeploy(node) ==
    IF node.Kind = "ceos" THEN createCEOSFiles(node) ELSE node

\* c.CreateNodes(ctx, nodesMaxWorkers): PreDeploy and Deploy of every node;
\* created is the set of nodes whose container the runtime created and
\* started.  Nothing is returned: a node's failure is not seen by RunE.
CreateNodes ==
    /\ pc = "CreateNodes"
    /\ phases' = Append(phases, "CreateNodes")
    /\ \E created \in SUBSET Nodes :
         /\ rt' = [id \in ContainerIDs |->
                     IF \E nm \in created : id = ContainerIDOf(nm)
                     THEN "running" ELSE rt[id]]
         /\ nsGen' = [id \in ContainerIDs |->
                        IF \E nm \in created : id = ContainerIDOf(nm)
                        THEN 1 ELSE nsGen[id]]
         /\ symlink' = [ln \in LongNames |->
                          IF \E nm \in created : ln = LongName(nm)
                          THEN NSPathOf(ContainerIDOfLong(ln), 1)
                          ELSE symlink[ln]]
         /\ nodes' = [nm \in Nodes |->
                        IF nm \in created
                        THEN [PreDeploy(nodes[nm]) EXCEPT
                                 !.NSPath = NSPathOf(ContainerIDOf(nm), 1)]
                        ELSE PreDeploy(nodes[nm])]
    /\ pc' = "CreateLinks1"
    /\ UNCHANGED <<ret, containers, idx, disk, task, taskErr, calls, wg,
                   hostsFile, invoked, hostsErr, limits,
                   kindVars, name>>

\* c.CreateLinks(ctx, linksMaxWorkers, false): nothing is returned.
CreateLinksFirst ==
    /\ pc = "CreateLinks1"
    /\ phases' = Append(phases, "CreateLinks1")
    /\ pc' = "ListContainers"
    /\ UNCHANGED <<ret, nodes, containers, idx, rt, nsGen, symlink, disk, task,
                   taskErr, calls, wg, hostsFile, invoked, hostsErr, limits,
                   kindVars, name>>

\* The GenericContainer record of the container of nm.
Container(nm, set) ==
    [ID |-> ContainerIDOf(nm),
     Names |-> << <<"/", LongName(nm)>> >>,
     Labels |-> nm,
     NetworkSettings |->
        IF set
        THEN [Set |-> TRUE, IPv4addr |-> IPv4Of(nm), IPv4pLen |-> 24,
              IPv6addr |-> IPv6Of(nm), IPv6pLen |-> 64]
        ELSE [Set |-> FALSE, IPv4addr |-> "", IPv4pLen |-> 0,
              IPv6addr |-> "", IPv6pLen |-> 0]]

\* The containers of names (a set of node-name labels), nodes in index order
\* and the stale one last; set[nm] tells whether the container of node nm
\* has its network settings.
RECURSIVE ListOf(_, _, _)
ListOf(i, names, set) ==
    IF i > NumNodes
    THEN IF StaleName \in names THEN <<Container(StaleName, TRUE)>> ELSE <<>>
    ELSE IF ShortName(i) \in names
         THEN <<Container(ShortName(i), set[ShortName(i)])>>
              \o ListOf(i + 1, names, set)
         ELSE ListOf(i + 1, names, set)

\* ListContainers without the check for an empty list.
ListContainersNoEmptyCheck ==
    /\ pc = "ListContainers"
    /\ phases' = Append(phases, "ListContainers")
    /\ \/ /\ Return("could not list containers")
          /\ UNCHANGED containers
       \/ \E set \in [Nodes -> BOOLEAN] :
            LET labelled == {nm \in Nodes \cup {StaleName} :
                               rt[ContainerIDOf(nm)] = "running"}
                found == ListOf(1, labelled, set)
            IN  /\ \A nm \in Nodes \ labelled : ~set[nm]
                /\ containers' = found
                /\ pc' = "enrichNodes" /\ ret' = ret
    /\ UNCHANGED <<nodes, idx, rt, nsGen, symlink, disk, task, taskErr, calls,
                   wg, hostsFile, invoked, hostsErr, limits,
                   kindVars, name>>

\* c.Runtime.ListContainers(ctx, labels) and the two checks on its result.
ListContainers ==
    /\ pc = "ListContainers"
    /\ phases' = Append(phases, "ListContainers")
    /\ \/ /\ Return("could not list containers")
          /\ UNCHANGED containers
       \/ \E set \in [Nodes -> BOOLEAN] :
            LET labelled == {nm \in Nodes \cup {StaleName} :
                               rt[ContainerIDOf(nm)] = "running"}
                found == ListOf(1, labelled, set)
            IN  /\ \A nm \in Nodes \ labelled : ~set[nm]
                /\ containers' = found
                /\ IF Len(found) = 0
                   THEN Return("no containers found")
                   ELSE pc' = "enrichNodes" /\ ret' = ret
    /\ UNCHANGED <<nodes, idx, rt, nsGen, symlink, disk, task, taskErr, calls,
                   wg, hostsFile, invoked, hostsErr, limits,
                   kindVars, name>>

\* enrichOne that records the container ID and forgets the addresses.
enrichOneIDOnly(c, ns) ==
    LET nodeName == c.Labels
    IN  IF nodeName \in DOMAIN ns
        THEN IF ToLower(ns[nodeName].NetworkMode) = "host"
             THEN ns
             ELSE [ns EXCEPT ![nodeName].ContainerID = c.ID]
        ELSE ns

\* enrichOne that takes the addresses only of the container whose ID the
\* node holds already.
enrichOneAddressAfterID(c, ns) ==
    LET nodeName == c.Labels
    IN  IF nodeName \in DOMAIN ns
        THEN IF ToLower(ns[nodeName].NetworkMode) = "host"
             THEN ns
             ELSE LET node == ns[nodeName]
                      addressed ==
                          IF c.NetworkSettings.Set /\ node.ContainerID = c.ID
                          THEN [node EXCEPT
                                  !.MgmtIPv4Address = c.NetworkSettings.IPv4addr,
                                  !.MgmtIPv4PrefixLength = c.NetworkSettings.IPv4pLen,
                                  !.MgmtIPv6Address = c.NetworkSettings.IPv6addr,
                                  !.MgmtIPv6PrefixLength = c.NetworkSettings.IPv6pLen]
                          ELSE node
                  IN  [ns EXCEPT ![nodeName] = [addressed EXCEPT !.ContainerID = c.ID]]
        ELSE ns

\* One iteration of the loop of enrichNodes, for container c on node map ns.
enrichOne(c, ns) ==
    LET nodeName == c.Labels
    IN  IF nodeName \in DOMAIN ns
        THEN IF ToLower(ns[nodeName].NetworkMode) = "host"
             THEN ns
             ELSE LET node == ns[nodeName]
                      addressed ==
                          IF c.NetworkSettings.Set
                          THEN [node EXCEPT
                                  !.MgmtIPv4Address = c.NetworkSettings.IPv4addr,
                                  !.MgmtIPv4PrefixLength = c.NetworkSettings.IPv4pLen,
                                  !.MgmtIPv6Address = c.NetworkSettings.IPv6addr,
                                  !.MgmtIPv6PrefixLength = c.NetworkSettings.IPv6pLen]
                          ELSE node
                  IN  [ns EXCEPT ![nodeName] = [addressed EXCEPT !.ContainerID = c.ID]]
        ELSE ns

\* enrichNodes(containers, nodes) as a function: the node map after
\* the loop has gone through cs.
RECURSIVE enrichNodes(_, _)
enrichNodes(cs, ns) ==
    IF cs = <<>> THEN ns ELSE enrichNodes(Tail(cs), enrichOne(Head(cs), ns))

\* The call of enrichNodes in RunE, one container of the loop at a time.  The
\* loop keeps the node-name label in name, which enrichNodes does not declare:
\* it is the variable of package cmd that setFlags reads as the lab name.
EnrichStep ==
    /\ pc = "enrichNodes"
    /\ idx <= Len(containers)
    /\ phases' = IF idx = 1 THEN Append(phases, "enrichNodes") ELSE phases
    /\ name' = containers[idx].Labels
    /\ nodes' = enrichOne(containers[idx], nodes)
    /\ idx' = idx + 1
    /\ UNCHANGED <<pc, ret, containers, rt, nsGen, symlink, disk, task, taskErr,
                   calls, wg, hostsFile, invoked, hostsErr, limits,
                   kindVars>>

\* enrichNodes returns when the loop is over; c.GenerateInventories() follows
\* and its error ends the command.
GenerateInventories ==
    /\ pc = "enrichNodes"
    /\ idx > Len(containers)
    /\ \/ pc' = "PostDeploy" /\ ret' = ret
       \/ Return("GenerateInventories failed")
    /\ UNCHANGED <<phases, nodes, containers, idx, rt, nsGen, symlink, disk,
                   task, taskErr, calls, wg, hostsFile, invoked, hostsErr, limits,
                   kindVars, name>>

\* PostDeployFanOut over the nodes that enrichment gave a container ID only.
PostDeployFanOutDiscovered ==
    /\ pc = "PostDeploy"
    /\ phases' = Append(phases, "PostDeploy")
    /\ wg' = Cardinality({nm \in Nodes : nodes[nm].ContainerID # ""})
    /\ task' = [nm \in Nodes |-> IF nodes[nm].ContainerID # ""
                                  THEN "ExecPostDeployTasks" ELSE "done"]
    /\ pc' = "Wait"
    /\ UNCHANGED <<ret, nodes, containers, idx, rt, nsGen, symlink, disk,
                   taskErr, calls, hostsFile, invoked, hostsErr, limits,
                   kindVars, name>>

\* wg.Add(len(c.Nodes)) and one goroutine per node, each with its own node.
PostDeployFanOut ==
    /\ pc = "PostDeploy"
    /\ phases' = Append(phases, "PostDeploy")
    /\ wg' = Cardinality(Nodes)
    /\ task' = [nm \in Nodes |-> "ExecPostDeployTasks"]
    /\ pc' = "Wait"
    /\ UNCHANGED <<ret, nodes, containers, idx, rt, nsGen, symlink, disk,
                   taskErr, calls, hostsFile, invoked, hostsErr, limits,
                   kindVars, name>>

\* NodeConfig.GenerateConfig: the startup-config rendered from the template
\* with the node's fields as they are at the time of the call.
Render(node) ==
    << <<"hostname", node.ShortName>>,
       <<"ip address", node.MgmtIPv4Address, node.MgmtIPv4PrefixLength>>,
       <<"ipv6 address", node.MgmtIPv6Address, node.MgmtIPv6PrefixLength>> >>

\* The goroutine of node n makes call with argument arg; ok tells whether the
\* call returned without error.
Call(n, call, arg, ok) ==
    calls' = [calls EXCEPT ![n] = Append(@, <<call, arg, ok>>)]

\* "if err != nil { return err }": the call failed and ceosPostDeploy returns
\* its error.
ReturnErr(n, call) ==
    /\ task' = [task EXCEPT ![n] = "returned"]
    /\ taskErr' = [taskErr EXCEPT ![n] = call]

\* The call succeeded and ceosPostDeploy goes on to the call next.
GoOn(n, next) ==
    /\ task' = [task EXCEPT ![n] = next]
    /\ taskErr' = taskErr

\* The goroutine of node n calls c.ExecPostDeployTasks(ctx, node, linksMaxWorkers):
\* a cEOS node runs PostDeploy, which calls ceosPostDeploy; the other kinds
\* have nothing to do.
ExecPostDeployTasks(n) ==
    /\ task[n] = "ExecPostDeployTasks"
    /\ invoked' = [invoked EXCEPT ![n] = @ + 1]
    /\ IF nodes[n].Kind = "ceos"
       THEN GoOn(n, "GenerateConfig")
       ELSE /\ task' = [task EXCEPT ![n] = "returned"]
            /\ taskErr' = [taskErr EXCEPT ![n] = "nil"]
    /\ UNCHANGED <<pc, ret, phases, nodes, containers, idx, rt, nsGen, symlink,
                   disk, calls, wg, hostsFile, hostsErr, limits,
                   kindVars, name>>

\* ceosGenerateConfig of a protocol that removes the symlink and starts the
\* container without having stopped it.
ceosGenerateConfigNoStop(n) ==
    /\ task[n] = "GenerateConfig"
    /\ \/ /\ Call(n, "GenerateConfig", nodes[n].ResConfig, TRUE)
          /\ disk' = [disk EXCEPT ![nodes[n].ResConfig] = Render(nodes[n])]
          /\ GoOn(n, "DeleteNetnsSymlink")
       \/ /\ Call(n, "GenerateConfig", nodes[n].ResConfig, FALSE)
          /\ disk' = disk
          /\ ReturnErr(n, "GenerateConfig")
    /\ UNCHANGED <<pc, ret, phases, nodes, containers, idx, rt, nsGen, symlink,
                   wg, hostsFile, invoked, hostsErr, limits,
                   kindVars, name>>

\* ceosPostDeploy, first call: nodeCfg.GenerateConfig(nodeCfg.ResConfig, cfgTemplate).
ceosGenerateConfig(n) ==
    /\ task[n] = "GenerateConfig"
    /\ \/ /\ Call(n, "GenerateConfig", nodes[n].ResConfig, TRUE)
          /\ disk' = [disk EXCEPT ![nodes[n].ResConfig] = Render(nodes[n])]
          /\ GoOn(n, "StopContainer")
       \/ /\ Call(n, "GenerateConfig", nodes[n].ResConfig, FALSE)
          /\ disk' = disk
          /\ ReturnErr(n, "GenerateConfig")
    /\ UNCHANGED <<pc, ret, phases, nodes, containers, idx, rt, nsGen, symlink,
                   wg, hostsFile, invoked, hostsErr, limits,
                   kindVars, name>>

\* ceosStopContainer with the error of StopContainer dropped.
ceosStopContainerIgnoreErr(n) ==
    /\ task[n] = "StopContainer"
    /\ LET id == nodes[n].ContainerID
       IN  \/ /\ id \in ContainerIDs
              /\ rt[id] # "absent"
              /\ Call(n, "StopContainer", id, TRUE)
              /\ rt' = [rt EXCEPT ![id] = "stopped"]
              /\ GoOn(n, "DeleteNetnsSymlink")
           \/ /\ Call(n, "StopContainer", id, FALSE)
              /\ rt' = rt
              /\ GoOn(n, "DeleteNetnsSymlink")
    /\ UNCHANGED <<pc, ret, phases, nodes, containers, idx, nsGen, symlink,
                   disk, wg, hostsFile, invoked, hostsErr, limits,
                   kindVars, name>>

\* ceosPostDeploy: r.StopContainer(ctx, nodeCfg.ContainerID, &timeout).  The
\* runtime stops a container it knows, or returns an error.
ceosStopContainer(n) ==
    /\ task[n] = "StopContainer"
    /\ LET id == nodes[n].ContainerID
       IN  \/ /\ id \in ContainerIDs
              /\ rt[id] # "absent"
              /\ Call(n, "StopContainer", id, TRUE)
              /\ rt' = [rt EXCEPT ![id] = "stopped"]
              /\ GoOn(n, "DeleteNetnsSymlink")
           \/ /\ Call(n, "StopContainer", id, FALSE)
              /\ rt' = rt
              /\ ReturnErr(n, "StopContainer")
    /\ UNCHANGED <<pc, ret, phases, nodes, containers, idx, nsGen, symlink,
                   disk, wg, hostsFile, invoked, hostsErr, limits,
                   kindVars, name>>

\* ceosDeleteNetnsSymlink that reports success and leaves the symlink.
ceosDeleteNetnsSymlinkKeep(n) ==
    /\ task[n] = "DeleteNetnsSymlink"
    /\ \/ /\ Call(n, "DeleteNetnsSymlink", nodes[n].LongName, TRUE)
          /\ symlink' = symlink
          /\ GoOn(n, "StartContainer")
       \/ /\ Call(n, "DeleteNetnsSymlink", nodes[n].LongName, FALSE)
          /\ symlink' = symlink
          /\ ReturnErr(n, "DeleteNetnsSymlink")
    /\ UNCHANGED <<pc, ret, phases, nodes, containers, idx, rt, nsGen, disk,
                   wg, hostsFile, invoked, hostsErr, limits,
                   kindVars, name>>

\* ceosPostDeploy: utils.DeleteNetnsSymlink(nodeCfg.LongName).
ceosDeleteNetnsSymlink(n) ==
    /\ task[n] = "DeleteNetnsSymlink"
    /\ \/ /\ Call(n, "DeleteNetnsSymlink", nodes[n].LongName, TRUE)
          /\ symlink' = [symlink EXCEPT ![nodes[n].LongName] = ""]
          /\ GoOn(n, "StartContainer")
       \/ /\ Call(n, "DeleteNetnsSymlink", nodes[n].LongName, FALSE)
          /\ symlink' = symlink
          /\ ReturnErr(n, "DeleteNetnsSymlink")
    /\ UNCHANGED <<pc, ret, phases, nodes, containers, idx, rt, nsGen, disk,
                   wg, hostsFile, invoked, hostsErr, limits,
                   kindVars, name>>

\* ceosPostDeploy: r.StartContainer(ctx, nodeCfg.ContainerID).  A started
\* container gets a new network namespace.
ceosStartContainer(n) ==
    /\ task[n] = "StartContainer"
    /\ LET id == nodes[n].ContainerID
       IN  \/ /\ id \in ContainerIDs
              /\ rt[id] # "absent"
              /\ Call(n, "StartContainer", id, TRUE)
              /\ rt' = [rt EXCEPT ![id] = "running"]
              /\ nsGen' = [nsGen EXCEPT ![id] = @ + 1]
              /\ GoOn(n, "GetNSPath")
           \/ /\ Call(n, "StartContainer", id, FALSE)
              /\ rt' = rt
              /\ nsGen' = nsGen
              /\ ReturnErr(n, "StartContainer")
    /\ UNCHANGED <<pc, ret, phases, nodes, containers, idx, symlink, disk, wg,
                   hostsFile, invoked, hostsErr, limits,
                   kindVars, name>>

\* ceosGetNSPath writing through a node pointer shared by the goroutines: the
\* path lands in every node's config.
ceosGetNSPathShared(n) ==
    /\ task[n] = "GetNSPath"
    /\ LET id == nodes[n].ContainerID
       IN  \/ /\ id \in ContainerIDs
              /\ rt[id] = "running"
              /\ Call(n, "GetNSPath", id, TRUE)
              /\ nodes' = [m \in Nodes |->
                             [nodes[m] EXCEPT !.NSPath = NSPathOf(id, nsGen[id])]]
              /\ GoOn(n, "LinkContainerNS")
           \/ /\ Call(n, "GetNSPath", id, FALSE)
              /\ nodes' = [m \in Nodes |-> [nodes[m] EXCEPT !.NSPath = ""]]
              /\ ReturnErr(n, "GetNSPath")
    /\ UNCHANGED <<pc, ret, phases, containers, idx, rt, nsGen, symlink, disk,
                   wg, hostsFile, invoked, hostsErr, limits,
                   kindVars, name>>

\* ceosPostDeploy: nodeCfg.NSPath, err = r.GetNSPath(ctx, nodeCfg.ContainerID);
\* NSPath is assigned whether or not the call failed.
ceosGetNSPath(n) ==
    /\ task[n] = "GetNSPath"
    /\ LET id == nodes[n].ContainerID
       IN  \/ /\ id \in ContainerIDs
              /\ rt[id] = "running"
              /\ Call(n, "GetNSPath", id, TRUE)
              /\ nodes' = [nodes EXCEPT ![n].NSPath = NSPathOf(id, nsGen[id])]
              /\ GoOn(n, "LinkContainerNS")
           \/ /\ Call(n, "GetNSPath", id, FALSE)
              /\ nodes' = [nodes EXCEPT ![n].NSPath = ""]
              /\ ReturnErr(n, "GetNSPath")
    /\ UNCHANGED <<pc, ret, phases, containers, idx, rt, nsGen, symlink, disk,
                   wg, hostsFile, invoked, hostsErr, limits,
                   kindVars, name>>

\* ceosPostDeploy: return utils.LinkContainerNS(nodeCfg.NSPath, nodeCfg.LongName).
ceosLinkContainerNS(n) ==
    /\ task[n] = "LinkContainerNS"
    /\ \/ /\ Call(n, "LinkContainerNS", nodes[n].NSPath, TRUE)
          /\ symlink' = [symlink EXCEPT ![nodes[n].LongName] = nodes[n].NSPath]
          /\ task' = [task EXCEPT ![n] = "returned"]
          /\ taskErr' = [taskErr EXCEPT ![n] = "nil"]
       \/ /\ Call(n, "LinkContainerNS", nodes[n].NSPath, FALSE)
          /\ symlink' = symlink
          /\ ReturnErr(n, "LinkContainerNS")
    /\ UNCHANGED <<pc, ret, phases, nodes, containers, idx, rt, nsGen, disk, wg,
                   hostsFile, invoked, hostsErr, limits,
                   kindVars, name>>

\* GoroutineDone with wg.Done() called on success only instead of deferred.
GoroutineDoneOnSuccess(n) ==
    /\ task[n] = "returned"
    /\ task' = [task EXCEPT ![n] = "done"]
    /\ wg' = IF taskErr[n] = "nil" THEN wg - 1 ELSE wg
    /\ UNCHANGED <<pc, ret, phases, nodes, containers, idx, rt, nsGen, symlink,
                   disk, taskErr, calls, hostsFile, invoked, hostsErr, limits,
                   kindVars, name>>

\* The goroutine of node n after ExecPostDeployTasks returned: the error, if
\* any, is logged and the deferred wg.Done() runs.
GoroutineDone(n) ==
    /\ task[n] = "returned"
    /\ task' = [task EXCEPT ![n] = "done"]
    /\ wg' = wg - 1
    /\ UNCHANGED <<pc, ret, phases, nodes, containers, idx, rt, nsGen, symlink,
                   disk, taskErr, calls, hostsFile, invoked, hostsErr, limits,
                   kindVars, name>>

\* WgWait without the barrier: RunE goes on while goroutines still run.
WgWaitNoBarrier ==
    /\ pc = "Wait"
    /\ pc' = "CreateLinks2"
    /\ UNCHANGED <<ret, phases, nodes, containers, idx, rt, nsGen, symlink,
                   disk, task, taskErr, calls, wg, hostsFile, invoked, hostsErr, limits,
                   kindVars, name>>

\* wg.Wait() returns once the counter is zero.
WgWait ==
    /\ pc = "Wait"
    /\ wg = 0
    /\ pc' = "CreateLinks2"
    /\ UNCHANGED <<ret, phases, nodes, containers, idx, rt, nsGen, symlink,
                   disk, task, taskErr, calls, wg, hostsFile, invoked, hostsErr, limits,
                   kindVars, name>>

\* c.CreateLinks(ctx, linksMaxWorkers, true): nothing is returned.
CreateLinksSecond ==
    /\ pc = "CreateLinks2"
    /\ phases' = Append(phases, "CreateLinks2")
    /\ pc' = "createHostsFile"
    /\ UNCHANGED <<ret, nodes, containers, idx, rt, nsGen, symlink, disk, task,
                   taskErr, calls, wg, hostsFile, invoked, hostsErr, limits,
                   kindVars, name>>

\* strings.TrimLeft(name, "/") on a name given as its sequence of parts.
RECURSIVE TrimLeft(_)
TrimLeft(s) ==
    IF s # <<>> /\ Head(s) = "/" THEN TrimLeft(Tail(s)) ELSE s

\* hostsEntries that does not look at NetworkSettings.Set.
RECURSIVE hostsEntriesNoSetCheck(_)
hostsEntriesNoSetCheck(cs) ==
    IF cs = <<>>
    THEN <<>>
    ELSE LET cont == Head(cs)
             v4 == IF cont.NetworkSettings.IPv4addr # ""
                   THEN << <<cont.NetworkSettings.IPv4addr, "\t",
                             TrimLeft(cont.Names[1]), "\n">> >>
                   ELSE <<>>
             v6 == IF cont.NetworkSettings.IPv6addr # ""
                   THEN << <<cont.NetworkSettings.IPv6addr, "\t",
                             TrimLeft(cont.Names[1]), "\n">> >>
                   ELSE <<>>
         IN  (IF Len(cont.Names) = 0
              THEN <<>>
              ELSE v4 \o v6) \o hostsEntriesNoSetCheck(Tail(cs))

\* hostsEntries(containers, bridgeName): the lines of the hosts blob.
RECURSIVE hostsEntries(_)
hostsEntries(cs) ==
    IF cs = <<>>
    THEN <<>>
    ELSE LET cont == Head(cs)
             v4 == IF cont.NetworkSettings.IPv4addr # ""
                   THEN << <<cont.NetworkSettings.IPv4addr, "\t",
                             TrimLeft(cont.Names[1]), "\n">> >>
                   ELSE <<>>
             v6 == IF cont.NetworkSettings.IPv6addr # ""
                   THEN << <<cont.NetworkSettings.IPv6addr, "\t",
                             TrimLeft(cont.Names[1]), "\n">> >>
                   ELSE <<>>
         IN  (IF Len(cont.Names) = 0 \/ ~cont.NetworkSettings.Set
              THEN <<>>
              ELSE v4 \o v6) \o hostsEntries(Tail(cs))

\* createHostsFile(containers, c.Config.Mgmt.Network); its error is logged.
\* The result is <<what /etc/hosts holds afterwards, the error>>.
createHostsFile(cs, bridgeName, file, writeOK) ==
    IF bridgeName = ""
    THEN <<file, "missing bridge name">>
    ELSE LET data == hostsEntries(cs)
         IN  IF Len(data) = 0
             THEN <<file, "nil">>
             ELSE IF writeOK
                  THEN <<file \o << <<"\n">> >> \o data, "nil">>
                  ELSE <<file, "write failed">>

\* The call of createHostsFile in RunE, with the configured bridge name
\* c.Config.Mgmt.Network, which nothing reads before.
CreateHostsFile ==
    /\ pc = "createHostsFile"
    /\ phases' = Append(phases, "createHostsFile")
    /\ \E bridgeName \in MgmtNets, writeOK \in BOOLEAN :
          LET res == createHostsFile(containers, bridgeName, hostsFile, writeOK)
          IN  hostsFile' = res[1] /\ hostsErr' = res[2]
    /\ pc' = "printContainerInspect"
    /\ UNCHANGED <<ret, nodes, containers, idx, rt, nsGen, symlink, disk, task,
                   taskErr, calls, wg, invoked, limits, kindVars, name>>

\* newVerNotification, printContainerInspect and "return nil".
PrintContainerInspect ==
    /\ pc = "printContainerInspect"
    /\ Return("nil")
    /\ UNCHANGED <<phases, nodes, containers, idx, rt, nsGen, symlink, disk,
                   task, taskErr, calls, wg, hostsFile, invoked, hostsErr, limits,
                   kindVars, name>>

\* The steps of deployCmd.RunE.
Main ==
    \/ CreateNet
    \/ CreateNodes
    \/ CreateLinksFirst
    \/ ListContainers
    \/ EnrichStep
    \/ GenerateInventories
    \/ PostDeployFanOut
    \/ WgWait
    \/ CreateLinksSecond
    \/ CreateHostsFile
    \/ PrintContainerInspect

\* The steps of the post-deploy goroutine of node n.
Task(n) ==
    \/ ExecPostDeployTasks(n)
    \/ ceosGenerateConfig(n)
    \/ ceosStopContainer(n)
    \/ ceosDeleteNetnsSymlink(n)
    \/ ceosStartContainer(n)
    \/ ceosGetNSPath(n)
    \/ ceosLinkContainerNS(n)
    \/ GoroutineDone(n)

Next == Main \/ \E n \in Nodes : Task(n)

Spec == Init /\ [][Next]_vars

\* Every call into the runtime and the host returns, and the Go scheduler
\* runs every runnable goroutine.
FairSpec == Spec /\ WF_vars(Main) /\ \A n \in Nodes : WF_vars(Task(n))

----------------------------------------------------------------------------
\* Helpers of the properties.

Range(seq) == {seq[i] : i \in 1..Len(seq)}

IsPrefix(s, t) == Len(s) <= Len(t) /\ \A i \in 1..Len(s) : s[i] = t[i]

\* The names of the calls the protocol has made for node n, in order.
CallNames(n) == [i \in 1..Len(calls[n]) |-> calls[n][i][1]]

\* How many times the protocol of node n has made call.
Count(n, call) == Cardinality({i \in 1..Len(calls[n]) : calls[n][i][1] = call})

Bootstrapped(n) == nodes[n].Kind = "ceos" /\ taskErr[n] = "nil"

AfterFanOut == pc \in {"CreateLinks2", "createHostsFile", "printContainerInspect"}
                  \/ ret = "nil"

----------------------------------------------------------------------------
\* C1: the phases of a deploy run start in the order network setup, node
\* creation, first-pass links, container discovery, enrichment, post-deploy
\* fan-out, second-pass links, hosts emission; no node's PostDeploy starts
\* before enrichment has gone through every discovered container, and the
\* second link pass does not start before every PostDeploy goroutine is done.
C1_PhaseOrder ==
    /\ IsPrefix(phases, PhaseOrder)
    /\ ret = "nil" => phases = PhaseOrder
    /\ \A n \in Nodes :
          (task[n] # "idle" \/ invoked[n] > 0 \/ calls[n] # <<>>)
             => /\ "enrichNodes" \in Range(phases)
                /\ idx > Len(containers)
                /\ nodes = enrichNodes(containers, nodes)
    /\ (AfterFanOut \/ "CreateLinks2" \in Range(phases))
          => \A n \in Nodes : task[n] = "done" /\ taskErr[n] # "none"

\* A run that went through all the phases, with a bootstrapped node.
C1_Witness ==
    /\ ret = "nil"
    /\ phases = PhaseOrder
    /\ \E n \in Nodes : Bootstrapped(n)

\* C2: a bootstrap protocol run that succeeds has made exactly the calls
\* render, stop, remove symlink, start, resolve namespace path, re-create
\* symlink, in this order and all successful; when the stop is called the
\* startup-config on disk is already the rendered one.
C2_ProtocolOrder ==
    \A n \in Nodes :
        /\ Bootstrapped(n)
              => /\ CallNames(n) = Steps
                 /\ \A i \in 1..Len(calls[n]) : calls[n][i][3]
        /\ "StopContainer" \in Range(CallNames(n))
              => /\ calls[n][1] = <<"GenerateConfig", nodes[n].ResConfig, TRUE>>
                 /\ disk[nodes[n].ResConfig] = Render(nodes[n])
        /\ \A i, j \in 1..Len(calls[n]) :
              (calls[n][i][1] = "StopContainer" /\ calls[n][j][1] = "StartContainer")
                 => i < j

\* A node whose protocol run succeeded.
C2_Witness ==
    \E n \in Nodes : Bootstrapped(n) /\ task[n] = "done" /\ Len(calls[n]) = 6

\* C3: ExecPostDeployTasks is called at most once per node, and exactly once
\* for every node once the fan-out is over; the protocol of a node calls
\* StopContainer and StartContainer at most once each, with the node's own
\* container ID, which no other node's protocol uses, and exactly once each
\* when it succeeds; a node of another kind makes no runtime call.
C3_OncePerNode ==
    \A n \in Nodes :
        /\ invoked[n] <= 1
        /\ AfterFanOut => invoked[n] = 1
        /\ Count(n, "StopContainer") <= 1
        /\ Count(n, "StartContainer") <= 1
        /\ Bootstrapped(n)
              => Count(n, "StopContainer") = 1 /\ Count(n, "StartContainer") = 1
        /\ nodes[n].Kind # "ceos" => calls[n] = <<>>
        /\ \A i \in 1..Len(calls[n]) :
              calls[n][i][1] \in {"StopContainer", "StartContainer"}
                 => /\ calls[n][i][2] = nodes[n].ContainerID
                    /\ \A m \in Nodes \ {n} :
                          calls[n][i][2] # "" => nodes[m].ContainerID # calls[n][i][2]

\* A finished deployment with a bootstrapped node and a node whose protocol
\* failed after the stop.
C3_Witness ==
    /\ ret = "nil"
    /\ \E n, m \in Nodes :
          /\ Bootstrapped(n)
          /\ nodes[m].Kind = "ceos"
          /\ taskErr[m] = "StartContainer"

\* C4: a failed call of the protocol is the last call the protocol makes for
\* the node and its error is what the node's PostDeploy returns; the calls
\* made are always an initial part of the protocol's sequence.
C4_AbortOnError ==
    \A n \in Nodes :
        /\ IsPrefix(CallNames(n), Steps)
        /\ \A i \in 1..Len(calls[n]) :
              ~calls[n][i][3]
                 => /\ i = Len(calls[n])
                    /\ taskErr[n] = calls[n][i][1]
                    /\ task[n] \in {"returned", "done"}
        /\ (taskErr[n] \notin {"none", "nil"})
              => /\ calls[n] # <<>>
                 /\ ~calls[n][Len(calls[n])][3]

\* One node failed at the stop and never started, another failed at the render
\* and never stopped.
C4_Witness ==
    \E n, m \in Nodes :
        /\ task[n] = "done" /\ taskErr[n] = "StopContainer"
        /\ "StartContainer" \notin Range(CallNames(n))
        /\ task[m] = "done" /\ taskErr[m] = "GenerateConfig"
        /\ "StopContainer" \notin Range(CallNames(m))

\* C5: a protocol run that has stopped the node's container never returns
\* with that container stopped and not started again.
C5_NeverLeftStopped ==
    \A n \in Nodes :
        (/\ task[n] \in {"returned", "done"}
         /\ <<"StopContainer", nodes[n].ContainerID, TRUE>> \in Range(calls[n]))
            => rt[nodes[n].ContainerID] = "running"

\* What a step of the goroutine of node a leaves alone: the NodeConfig, the
\* goroutine, the container, the symlink and the startup-config of node b.
Untouched(b) ==
    /\ nodes'[b] = nodes[b]
    /\ task'[b] = task[b]
    /\ taskErr'[b] = taskErr[b]
    /\ calls'[b] = calls[b]
    /\ symlink'[nodes[b].LongName] = symlink[nodes[b].LongName]
    /\ nodes[b].ResConfig \in Paths
          => disk'[nodes[b].ResConfig] = disk[nodes[b].ResConfig]
    /\ nodes[b].ContainerID \in ContainerIDs
          => rt'[nodes[b].ContainerID] = rt[nodes[b].ContainerID]

\* C6: in the fan-out a step of node a's goroutine, failing or not, changes
\* nothing of any other node b (its NodeConfig with container ID, addresses,
\* namespace path and startup-config path, its goroutine, its container),
\* and whatever the other goroutines did, a goroutine that is not done can
\* take its next step.
C6_Isolation ==
    /\ [][\A a \in Nodes :
            (task'[a] # task[a] /\ task[a] # "idle")
               => \A b \in Nodes \ {a} : Untouched(b)]_vars
    /\ [](\A b \in Nodes : task[b] \notin {"idle", "done"} => ENABLED Task(b))

\* Node a failed its protocol and node b completed its own, with the fields
\* enrichment gave it.
C6_Witness ==
    \E a, b \in Nodes :
        /\ a # b
        /\ task[a] = "done" /\ taskErr[a] = "StopContainer"
        /\ task[b] = "done" /\ Bootstrapped(b)
        /\ nodes[b].ContainerID = ContainerIDOf(b)
        /\ nodes[b].MgmtIPv4Address = IPv4Of(b)

\* C7: once the fan-out has started, the barrier is passed and the command
\* goes through the second link pass and the hosts emission and returns nil,
\* whichever PostDeploy calls failed; no PostDeploy error becomes the
\* command's error.
C7_FailSoft ==
    /\ (pc = "Wait") ~> (pc = "done" /\ ret = "nil" /\ phases = PhaseOrder)
    /\ []("PostDeploy" \in Range(phases) => ret \in {"running", "nil"})

\* The command returned nil although the PostDeploy of every node failed.
C7_Witness ==
    /\ ret = "nil"
    /\ \A n \in Nodes : taskErr[n] \notin {"none", "nil"}

\* The management IPv4 address enrichment leaves in node n: that of the last
\* discovered container with n's label and set network settings, unless the
\* node is host-networked or there is no such container.
EnrichedIPv4(n) ==
    LET S == {i \in 1..Len(containers) :
                 containers[i].Labels = n /\ containers[i].NetworkSettings.Set}
    IN  IF S = {} \/ ToLower(nodes[n].NetworkMode) = "host"
        THEN ""
        ELSE containers[CHOOSE i \in S : \A j \in S : j <= i].NetworkSettings.IPv4addr

Enriched == "enrichNodes" \in Range(phases) /\ idx > Len(containers)

\* C9: after enrichment every node named by the label of a discovered
\* container has that container's ID, also when it is host-networked, and
\* has the container's addresses and prefix lengths unless it is
\* host-networked.
C9_EnrichedByLabel ==
    Enriched =>
        \A i \in 1..Len(containers) :
            containers[i].Labels \in Nodes
               => LET node == nodes[containers[i].Labels]
                      net == containers[i].NetworkSettings
                  IN  /\ node.ContainerID = containers[i].ID
                      /\ ToLower(node.NetworkMode) # "host"
                            => /\ node.MgmtIPv4Address = net.IPv4addr
                               /\ node.MgmtIPv4PrefixLength = net.IPv4pLen
                               /\ node.MgmtIPv6Address = net.IPv6addr
                               /\ node.MgmtIPv6PrefixLength = net.IPv6pLen

DiscoveryErrors == {"could not list containers", "no containers found"}

\* C10: when ListContainers fails or returns no container the command
\* returns an error at once: no node is enriched, no PostDeploy is called,
\* no second link pass and no hosts emission happens.
C10_DiscoveryFailure ==
    /\ ("ListContainers" \in Range(phases) /\ containers = <<>>)
          => ret \in DiscoveryErrors
    /\ ret \in DiscoveryErrors
          => /\ pc = "done"
             /\ phases = SubSeq(PhaseOrder, 1, 4)
             /\ idx = 1
             /\ hostsFile = <<>>
             /\ \A n \in Nodes :
                   /\ nodes[n].ContainerID = ""
                   /\ nodes[n].MgmtIPv4Address = ""
                   /\ nodes[n].MgmtIPv6Address = ""
                   /\ invoked[n] = 0
                   /\ task[n] = "idle"
                   /\ calls[n] = <<>>

\* The command ended on an empty container list.
C10_Witness ==
    /\ ret = "no containers found"
    /\ pc = "done"
    /\ containers = <<>>

----------------------------------------------------------------------------
\* A node whose container the runtime could not create: node creation has
\* run and the node's container is still absent.
NodeCreationFailed ==
    /\ "CreateNodes" \in Range(phases)
    /\ \E nm \in Nodes : rt[ContainerIDOf(nm)] = "absent"

\* C11: a failure in a barrier phase propagates at once: when the management
\* network could not be set up, or the container of some node could not be
\* created, the command has returned an error and the failed phase is the
\* last phase that was started.
C11_BarrierFailurePropagates ==
    /\ ("CreateNet" \in Range(phases) /\ ret = "CreateNet failed")
          => pc = "done" /\ phases = <<"CreateNet">>
    /\ NodeCreationFailed
          => /\ pc = "done"
             /\ ret \notin {"running", "nil"}
             /\ phases = <<"CreateNet", "CreateNodes">>

----------------------------------------------------------------------------
\* The parts of the state of a deploy run that has not started, for the
\* specifications that look at one function of the program.
FreshRun ==
    /\ name = LabName
    /\ ret = "running"
    /\ phases = <<>>
    /\ idx = 1
    /\ wg = 0
    /\ hostsFile = <<>>
    /\ hostsErr = "none"

FreshRuntime ==
    /\ rt = [id \in ContainerIDs |-> "absent"]
    /\ nsGen = [id \in ContainerIDs |-> 0]
    /\ symlink = [ln \in LongNames |-> ""]
    /\ disk = [p \in Paths |-> <<>>]

FreshTasks ==
    /\ task = [nm \in Nodes |-> "idle"]
    /\ taskErr = [nm \in Nodes |-> "none"]
    /\ calls = [nm \in Nodes |-> <<>>]
    /\ invoked = [nm \in Nodes |-> 0]

FreshNodes == nodes = [nm \in Nodes |-> NewNodeConfig(nm, "linux", "bridge")]

----------------------------------------------------------------------------
\* The worker limits for every --max-workers value up to MaxWorkers and every
\* number of nodes and of links up to MaxItems.
InitLimits ==
    /\ pc = "CreateNet"
    /\ \E maxWorkers \in 0..MaxWorkers, numNodes, numLinks \in 0..MaxItems :
          limits = NewLimits(maxWorkers, numNodes, numLinks)
    /\ FreshRun /\ FreshRuntime /\ FreshTasks /\ FreshNodes /\ NoKind
    /\ containers = <<>>

NextLimits == CreateNet

SpecLimits == InitLimits /\ [][NextLimits]_vars

Min(a, b) == CHOOSE x \in {a, b} : x <= a /\ x <= b

\* The limit l is right for n items under the maximum m.
RightLimit(l, m, n) ==
    /\ m = 0 => l = n
    /\ m # 0 => l = Min(m, n)
    /\ n >= 1 => 1 <= l /\ l <= n

\* C12: once RunE has computed them, the worker limit for nodes and the one
\* for links are the item count when the configured maximum is 0 and the
\* smaller of maximum and item count otherwise; with at least one item the
\* limit lies between 1 and the item count.
C12_WorkerLimit ==
    pc = "CreateNodes" =>
        /\ RightLimit(limits.nodesMaxWorkers, limits.maxWorkers, limits.numNodes)
        /\ RightLimit(limits.linksMaxWorkers, limits.maxWorkers, limits.numLinks)

\* The maximum is above the number of nodes and below the number of links.
C12_Witness ==
    /\ pc = "CreateNodes"
    /\ limits.numNodes >= 1
    /\ limits.maxWorkers > limits.numNodes
    /\ limits.maxWorkers < limits.numLinks
    /\ limits.nodesMaxWorkers = limits.numNodes
    /\ limits.linksMaxWorkers = limits.maxWorkers

----------------------------------------------------------------------------
\* The protocol of node n has started the node's container again.
Restarted(n) ==
    <<"StartContainer", nodes[n].ContainerID, TRUE>> \in Range(calls[n])

\* The namespace path the runtime resolves for the container of node n now.
CurrentNSPath(n) ==
    NSPathOf(nodes[n].ContainerID, nsGen[nodes[n].ContainerID])

\* C13: after a bootstrap protocol run that succeeded, the node's NSPath is
\* the path the runtime resolves after the restart, which is not the path of
\* the first start, and the node's symlink points at it; the symlink is gone
\* when the protocol is about to start the container again, and from the
\* restart on it is absent or points at the namespace of the restart.
C13_NamespaceAfterRestart ==
    \A n \in Nodes :
        /\ Bootstrapped(n) =>
              /\ Restarted(n)
              /\ nodes[n].NSPath = CurrentNSPath(n)
              /\ nodes[n].NSPath # NSPathOf(nodes[n].ContainerID, 1)
              /\ symlink[nodes[n].LongName] = nodes[n].NSPath
        /\ task[n] = "StartContainer" => symlink[nodes[n].LongName] = ""
        /\ Restarted(n) => symlink[nodes[n].LongName] \in {"", CurrentNSPath(n)}

\* A cEOS node is bootstrapped and its symlink points at the namespace of the
\* second start of its container.
C13_Witness ==
    \E n \in Nodes :
        /\ Bootstrapped(n)
        /\ symlink[LongName(n)] = NSPathOf(ContainerIDOf(n), 2)
        /\ nodes[n].NSPath = NSPathOf(ContainerIDOf(n), 2)

----------------------------------------------------------------------------
\* hostsEntries and createHostsFile on any container list of up to
\* MaxContainers records.

\* The names the i-th container of a list may have: none, its long name with
\* the runtime's leading "/", a name without it followed by an alias, and a
\* name with two leading "/".
NamesOf(i) ==
    {<<>>,
     << <<"/", LongName(ShortName(i))>> >>,
     << <<LongName(ShortName(i))>>, <<"/", "alias">> >>,
     << <<"/", "/", LongName(ShortName(i))>> >>}

\* A GenericContainer record: the i-th of a list, with the given names and
\* node-name label, with or without set network settings and with or without
\* an address of each family.
GenericContainer(i, names, label, set, v4, v6) ==
    [ID |-> "id-c" \o ToString(i),
     Names |-> names,
     Labels |-> label,
     NetworkSettings |->
        [Set |-> set,
         IPv4addr |-> IF v4 THEN IPv4Of(ShortName(i)) ELSE "",
         IPv4pLen |-> IF v4 THEN 24 ELSE 0,
         IPv6addr |-> IF v6 THEN IPv6Of(ShortName(i)) ELSE "",
         IPv6pLen |-> IF v6 THEN 64 ELSE 0]]

HostsContainers(i) ==
    {GenericContainer(i, names, StaleName, set, v4, v6) :
        names \in NamesOf(i), set \in BOOLEAN, v4 \in BOOLEAN, v6 \in BOOLEAN}

\* The container lists of length len whose i-th record is in universe[i].
ListsOf(len, universe) ==
    {cs \in [1..len -> UNION {universe[i] : i \in 1..len}] :
        \A i \in 1..len : cs[i] \in universe[i]}

InitHosts ==
    /\ pc = "createHostsFile"
    /\ \E len \in 0..MaxContainers :
          containers \in ListsOf(len, [i \in 1..len |-> HostsContainers(i)])
    /\ FreshRun /\ FreshRuntime /\ FreshTasks /\ FreshNodes /\ NoKind
    /\ limits = NewLimits(0, NumNodes, 0)

NextHosts == CreateHostsFile

SpecHosts == InitHosts /\ [][NextHosts]_vars

\* Container c is one hostsEntries writes lines for.
Eligible(c) == Len(c.Names) > 0 /\ c.NetworkSettings.Set

\* The addresses container c gets a line for, IPv4 before IPv6.
Families(c) ==
    IF Eligible(c)
    THEN SelectSeq(<<c.NetworkSettings.IPv4addr, c.NetworkSettings.IPv6addr>>,
                   LAMBDA a : a # "")
    ELSE <<>>

\* The number of lines of the containers before the i-th one of cs.
RECURSIVE LinesBefore(_, _)
LinesBefore(cs, i) ==
    IF i <= 1 THEN 0 ELSE LinesBefore(cs, i - 1) + Len(Families(cs[i - 1]))

\* The first name of container c from its first part that is not "/".
HostName(c) ==
    LET nm == c.Names[1]
        k  == CHOOSE j \in 0..Len(nm) :
                 /\ \A h \in 1..j : nm[h] = "/"
                 /\ j = Len(nm) \/ nm[j + 1] # "/"
    IN  SubSeq(nm, k + 1, Len(nm))

\* out holds, container by container, one line for each address of Families.
RightBlob(cs, out) ==
    /\ Len(out) = LinesBefore(cs, Len(cs) + 1)
    /\ \A i \in 1..Len(cs) : \A k \in 1..Len(Families(cs[i])) :
          out[LinesBefore(cs, i) + k] =
              <<Families(cs[i])[k], "\t", HostName(cs[i]), "\n">>

\* C14: what createHostsFile has appended to the hosts file when it returned
\* nil is nothing, if hostsEntries gave no line, or a newline followed by the
\* lines of hostsEntries; these are, in the order of the containers, one line
\* "address TAB name NEWLINE" for the IPv4 address and then one for the IPv6
\* address, each if not empty, of every container with a name and with set
\* network settings, the name being the first name without its leading "/";
\* the other containers have no line.
C14_HostsLines ==
    (pc = "printContainerInspect" /\ hostsErr = "nil") =>
        IF hostsFile = <<>>
        THEN RightBlob(containers, <<>>)
        ELSE /\ Head(hostsFile) = <<"\n">>
             /\ RightBlob(containers, Tail(hostsFile))

\* The first container has addresses and unset network settings, the second
\* one has a name with a leading "/" and both addresses: two lines are written.
C14_Witness ==
    /\ pc = "printContainerInspect" /\ hostsErr = "nil"
    /\ Len(containers) = 2
    /\ ~containers[1].NetworkSettings.Set
    /\ containers[1].Names # <<>>
    /\ containers[1].NetworkSettings.IPv4addr # ""
    /\ hostsFile = << <<"\n">>,
                      <<IPv4Of(ShortName(2)), "\t", <<LongName(ShortName(2))>>, "\n">>,
                      <<IPv6Of(ShortName(2)), "\t", <<LongName(ShortName(2))>>, "\n">> >>
    /\ containers[2].Names[1][1] = "/"

\* No container of cs gets a line.
NoHostLine(cs) == \A i \in 1..Len(cs) : Families(cs[i]) = <<>>

\* C15: when no container is eligible for a hosts line, createHostsFile has
\* written nothing and returned nil, whatever the bridge name, the empty one
\* included.
C15_NoOpSuccess ==
    (pc = "printContainerInspect" /\ NoHostLine(containers)) =>
        hostsFile = <<>> /\ hostsErr = "nil"

----------------------------------------------------------------------------
\* enrichNodes on any container list of up to MaxContainers records and any
\* node map, applied a first and a second time.

\* The i-th container of a list: labelled with a node's name or with a name
\* no node has (labels may repeat in a list), with set network settings and
\* addresses, or with unset ones and with or without addresses.
EnrichContainers(i) ==
    {GenericContainer(i, << <<"/", LongName(label)>> >>, label, sa[1], sa[2], sa[2]) :
        label \in Nodes \cup {StaleName},
        sa \in {<<TRUE, TRUE>>, <<FALSE, FALSE>>, <<FALSE, TRUE>>}}

\* The address the topology file gives node nm.
StaticIPv4Of(nm) == "10.0.0." \o nm

\* The NodeConfig of node nm before enrichment, with or without a management
\* address already in it.
NodeBefore(nm, mode, static) ==
    [NewNodeConfig(nm, "linux", mode) EXCEPT
        !.MgmtIPv4Address = IF static THEN StaticIPv4Of(nm) ELSE "",
        !.MgmtIPv4PrefixLength = IF static THEN 16 ELSE 0]

InitEnrich ==
    /\ pc = "enrichNodes"
    /\ \E len \in 0..MaxContainers :
          containers \in ListsOf(len, [i \in 1..len |-> EnrichContainers(i)])
    /\ \E mode \in [Nodes -> NetworkModes], static \in [Nodes -> BOOLEAN] :
          nodes = [nm \in Nodes |-> NodeBefore(nm, mode[nm], static[nm])]
    /\ FreshRun /\ FreshRuntime /\ FreshTasks /\ NoKind
    /\ limits = NewLimits(0, NumNodes, 0)

\* enrichNodes(containers, c.Nodes, ...) called again with the same containers
\* once its loop is over.
EnrichAgain ==
    /\ pc = "enrichNodes"
    /\ idx > Len(containers)
    /\ nodes' = enrichNodes(containers, nodes)
    /\ name' = IF containers = <<>>
               THEN name ELSE containers[Len(containers)].Labels
    /\ pc' = "enrichNodes again"
    /\ UNCHANGED <<ret, phases, containers, idx, rt, nsGen, symlink, disk, task,
                   taskErr, calls, wg, hostsFile, invoked, hostsErr, limits,
                   kindVars>>

NextEnrich == EnrichStep \/ EnrichAgain

SpecEnrich == InitEnrich /\ [][NextEnrich]_vars

\* The fields of a NodeConfig that enrichment writes.
EnrichedFields(node) ==
    <<node.MgmtIPv4Address, node.MgmtIPv4PrefixLength,
      node.MgmtIPv6Address, node.MgmtIPv6PrefixLength, node.ContainerID>>

\* C16: enrichment is idempotent: applying enrichNodes a second time with the
\* same containers leaves the management addresses, the prefix lengths and
\* the container ID of every node as the first application left them.
C16_Idempotent ==
    [][(pc = "enrichNodes" /\ pc' = "enrichNodes again") =>
          \A n \in Nodes : EnrichedFields(nodes'[n]) = EnrichedFields(nodes[n])]_vars

\* Enrichment has been applied twice to two containers with the label of the
\* same bridged node that had an address of its own: the node holds the
\* addresses of the first, whose settings are set, and the ID of the second.
C16_Witness ==
    /\ pc = "enrichNodes again"
    /\ Len(containers) = 2
    /\ \E n \in Nodes :
          /\ containers[1].Labels = n /\ containers[2].Labels = n
          /\ containers[1].NetworkSettings.Set
          /\ ~containers[2].NetworkSettings.Set
          /\ containers[2].NetworkSettings.IPv4addr # ""
          /\ nodes[n].MgmtIPv4Address = containers[1].NetworkSettings.IPv4addr
          /\ nodes[n].MgmtIPv4Address # StaticIPv4Of(n)
          /\ nodes[n].ContainerID = containers[2].ID

----------------------------------------------------------------------------
\* The fields of a NodeConfig that enrichment has no business with.
OtherFields(node) ==
    <<node.ShortName, node.LongName, node.Kind, node.NetworkMode, node.NSPath,
      node.ResConfig>>

\* The management addresses and prefix lengths of a NodeConfig.
AddressFields(node) ==
    <<node.MgmtIPv4Address, node.MgmtIPv4PrefixLength,
      node.MgmtIPv6Address, node.MgmtIPv6PrefixLength>>

\* A step of the loop of enrichNodes, for container c, leaves the node map
\* alone but for the node c is labelled with: a node that is not the one of
\* the label keeps all its fields, the node of the label keeps its addresses
\* and prefix lengths when c's network settings are unset, and it keeps the
\* fields enrichment does not write.
NodesFrame(c) ==
    \A n \in Nodes :
        /\ c.Labels # n => nodes'[n] = nodes[n]
        /\ ~c.NetworkSettings.Set => AddressFields(nodes'[n]) = AddressFields(nodes[n])
        /\ OtherFields(nodes'[n]) = OtherFields(nodes[n])

\* What is not the node map: the program's other variables, the runtime and
\* the host.
OutsideNodes ==
    <<name, containers, limits, rt, nsGen, symlink, disk, hostsFile>>

\* C19: enrichment changes nothing it is not meant to: a step of enrichNodes
\* changes nothing outside the node map, a node with no container labelled
\* with its name keeps all its fields, and a matched node whose container has
\* unset network settings keeps its addresses and prefix lengths; and once
\* the containers are listed neither enrichment nor the post-deploy phase
\* changes the list, so that createHostsFile reads what enrichNodes read.
C19_EnrichmentFrame ==
    [][/\ (pc = "enrichNodes" /\ idx' # idx) =>
             /\ NodesFrame(containers[idx])
             /\ OutsideNodes' = OutsideNodes
       /\ "ListContainers" \in Range(phases) => containers' = containers]_vars

----------------------------------------------------------------------------
\* ceos.Init on the NodeConfigs of two nodes.

\* The run of deployCmd.RunE: everything but the variables of the kind.
deployVars ==
    <<pc, ret, phases, nodes, containers, idx, rt, nsGen, symlink, disk, task,
      taskErr, calls, wg, hostsFile, invoked, hostsErr, limits, name>>

\* var ceosEnv, entry by entry.
ceosEnvEntries ==
    << <<"CEOS", "1">>, <<"EOS_PLATFORM", "ceoslab">>, <<"container", "docker">>,
       <<"ETBA", "4">>, <<"SKIP_ZEROTOUCH_BARRIER_IN_SYSDBINIT", "1">>,
       <<"INTFTYPE", "eth">>, <<"MAPETH0", "1">>, <<"MGMT_INTF", "eth0">> >>

\* ceosEnv as a map, of the first EnvBound entries.
ceosEnv ==
    LET taken == {i \in 1..Len(ceosEnvEntries) : i <= EnvBound}
    IN  [k \in {ceosEnvEntries[i][1] : i \in taken} |->
            (CHOOSE e \in {ceosEnvEntries[i] : i \in taken} : e[1] = k)[2]]

\* The env of a node in the topology file: none, one that sets a variable of
\* ceosEnv to its default, one that sets it to another value, and one with
\* a variable of its own.
UserEnvs == {<<>>, "CEOS" :> "1", "CEOS" :> "2", "TZ" :> "utc"}

\* utils.MergeStringMaps(a, b): the entries of both maps, those of b first.
MergeStringMaps(a, b) ==
    [k \in DOMAIN a \cup DOMAIN b |-> IF k \in DOMAIN b THEN b[k] ELSE a[k]]

\* The orders in which "for k, v := range m" may visit the keys of map m: Go
\* does not specify the iteration order of a map, any order may come.
RangeOrders(m) ==
    {o \in [1..Cardinality(DOMAIN m) -> DOMAIN m] :
        \A i, j \in DOMAIN o : i # j => o[i] # o[j]}

\* What envSb holds after the loop has visited the keys of env in order o
\* from the i-th on.
RECURSIVE SetenvFrom(_, _, _)
SetenvFrom(env, o, i) ==
    IF i > Len(o)
    THEN ""
    ELSE "systemd.setenv=" \o o[i] \o "=" \o env[o[i]] \o " "
            \o SetenvFrom(env, o, i + 1)

\* The two NodeConfigs ceos.Init is called on.
CfgIdx == {1, 2}

InitCeos ==
    /\ pc = "Init"
    /\ cfg \in [CfgIdx -> {[Env |-> e, Cmd |-> ""] : e \in UserEnvs}]
    /\ macAddress = <<>>
    /\ sysMac = <<>>
    /\ FreshRun /\ FreshRuntime /\ FreshTasks /\ FreshNodes
    /\ containers = <<>>
    /\ limits = NewLimits(0, NumNodes, 0)

\* (s *ceos).Init on the i-th NodeConfig: Env becomes the merged environment
\* and Cmd the init command with the environment on its command line.
ceosInit(i) ==
    /\ pc = "Init"
    /\ cfg[i].Cmd = ""
    /\ LET env == MergeStringMaps(ceosEnv, cfg[i].Env)
       IN  \E o \in RangeOrders(env) :
              cfg' = [cfg EXCEPT ![i] =
                         [Env |-> env,
                          Cmd |-> "/sbin/init " \o SetenvFrom(env, o, 1)]]
    /\ UNCHANGED <<deployVars, macAddress, sysMac>>

NextCeos == \E i \in CfgIdx : ceosInit(i)

SpecCeos == InitCeos /\ [][NextCeos]_vars

\* C17: ceos.Init puts the merged environment on the command line in an
\* order fixed by the environment: two NodeConfigs that Init has left with
\* the same merged environment have the same Cmd.
C17_DeterministicCmd ==
    \A i, j \in CfgIdx :
        (cfg[i].Cmd # "" /\ cfg[j].Cmd # "" /\ cfg[i].Env = cfg[j].Env)
            => cfg[i].Cmd = cfg[j].Cmd

----------------------------------------------------------------------------
\* createCEOSFiles on a node with any management MAC address of the prefix
\* that Init hands to utils.GenMac.  A MAC address in text is the sequence of
\* its groups of two hexadecimal digits.

HexDigits ==
    <<"0", "1", "2", "3", "4", "5", "6", "7", "8", "9", "a", "b", "c", "d",
      "e", "f">>

\* The two digits net.HardwareAddr.String() writes for byte b.
HexByte(b) == HexDigits[(b \div 16) + 1] \o HexDigits[(b % 16) + 1]

Bytes == 0..255

\* net.ParseMAC accepts text s as a 6-byte address.
ValidMAC(s) ==
    Len(s) = 6 /\ \A i \in 1..6 : \E b \in Bytes : HexByte(b) = s[i]

\* net.ParseMAC(s): the bytes of the address.
ParseMAC(s) == [i \in 1..6 |-> CHOOSE b \in Bytes : HexByte(b) = s[i]]

\* net.HardwareAddr.String(): the text of the bytes m.
MACString(m) == [i \in 1..Len(m) |-> HexByte(m[i])]

\* The system MAC that carries the overflow of the last byte into the fifth.
SysMACCarry(m) ==
    IF m[6] = 255
    THEN [m EXCEPT ![6] = 0, ![5] = (m[5] + 1) % 256]
    ELSE [m EXCEPT ![6] = m[6] + 1]

\* "m[5] = m[5] + 1" on the bytes of the address: the last byte, a uint8,
\* goes up by one and wraps.
SysMAC(m) == [m EXCEPT ![6] = (m[6] + 1) % 256]

\* The values of the bytes after the prefix that the addresses are taken
\* with in the fourth and fifth place.
EdgeBytes == {0, 255}

\* The node whose files are created.
FirstNode == ShortName(1)

InitMac ==
    /\ pc = "createCEOSFiles"
    /\ \/ \E a, b \in EdgeBytes, c \in Bytes :
             macAddress = <<"00", "1c", "73", HexByte(a), HexByte(b), HexByte(c)>>
       \/ macAddress = <<"00", "1c", "73">>
    /\ sysMac = <<>>
    /\ cfg = <<>>
    /\ nodes = [nm \in Nodes |-> NewNodeConfig(nm, "ceos", "bridge")]
    /\ FreshRun /\ FreshRuntime /\ FreshTasks
    /\ containers = <<>>
    /\ limits = NewLimits(0, NumNodes, 0)

\* createCEOSFiles(node): ResConfig is set, the address is parsed, and if it
\* parses its last byte is raised and the result written to the file
\* system_mac_address; node.MacAddress is read only.
CreateCEOSFiles ==
    /\ pc = "createCEOSFiles"
    /\ nodes' = [nodes EXCEPT ![FirstNode] = createCEOSFiles(@)]
    /\ IF ValidMAC(macAddress)
       THEN /\ sysMac' = MACString(SysMAC(ParseMAC(macAddress)))
            /\ pc' = "created"
       ELSE /\ sysMac' = sysMac
            /\ pc' = "ParseMAC failed"
    /\ UNCHANGED <<ret, phases, containers, idx, rt, nsGen, symlink, disk, task,
                   taskErr, calls, wg, hostsFile, invoked, hostsErr, limits,
                   name, cfg, macAddress>>

NextMac == CreateCEOSFiles

SpecMac == InitMac /\ [][NextMac]_vars

\* The value of a group of two hexadecimal digits.
ByteOf(g) == CHOOSE b \in Bytes : HexByte(b) = g

\* C18: for a valid 6-byte management MAC address, the system MAC that
\* createCEOSFiles writes has the first five bytes of the management MAC and
\* as last byte the management MAC's last byte plus one modulo 256, so that
\* ff becomes 00 with the fifth byte as it was; the management MAC of the
\* node is not changed.
C18_SystemMac ==
    [][pc = "createCEOSFiles" =>
          /\ macAddress' = macAddress
          /\ ValidMAC(macAddress) =>
                /\ pc' = "created"
                /\ Len(sysMac') = 6
                /\ \A i \in 1..5 : sysMac'[i] = macAddress[i]
                /\ ByteOf(sysMac'[6]) = (ByteOf(macAddress[6]) + 1) % 256
                /\ macAddress[6] = "ff" => sysMac'[6] = "00"]_vars

\* The management MAC ends in ff:ff and the system MAC in ff:00.
C18_Witness ==
    /\ pc = "created"
    /\ macAddress = <<"00", "1c", "73", "00", "ff", "ff">>
    /\ sysMac = <<"00", "1c", "73", "00", "ff", "00">>

====
